---- MODULE Spec2Model ----
(***************************************************************************)
(* Model of dashboard_app.py: the cached load of the sales dataset and one *)
(* execution of main() per user interaction (filter, KPIs, grouped         *)
(* aggregates, ranked table, insights).                                    *)
(*                                                                         *)
(* A DataFrame is a sequence of row records; the field "index" is the      *)
(* pandas index label (the row's position in the CSV file), which every    *)
(* operation of the script carries along unchanged.  A float produced by a *)
(* division is an exact fraction, or inf / nan when the divisor is zero.   *)
(* Dates are integers 100 * month + day.  The columns sub_category and     *)
(* discount are only displayed or averaged and are left out.               *)
(***************************************************************************)
EXTENDS Integers, Sequences, FiniteSets, TLC

VARIABLES
  source,              \* rows of the CSV file at DATA_PATH
  cache,               \* st.cache_data memo of load_data: <<>> or <<frame>>
  pc,                  \* "start", "first" (after the first run), "rerun"
  df,                  \* the frame main() bound at line 36, as the run left it
  criteria,            \* widget values of the last run
  filtered,            \* the filtered view of the last run
  warning,             \* st.warning was shown in the last run
  kpis,                \* the scalar KPIs, None when not computed
  revenue_by_month,    \* grouped aggregates, None when not computed
  margin_by_category,
  revenue_by_region,
  ranked,              \* the ranked table, None when not computed
  insights,            \* best / worst region and top-margin category
  raised               \* "" or the exception that ended the last run

vars == <<source, cache, pc, df, criteria, filtered, warning, kpis,
          revenue_by_month, margin_by_category, revenue_by_region, ranked,
          insights, raised>>

----------------------------------------------------------------------------
(* Bounds and value sets of the model *)

MaxRows == 2
MaxAggRows == 3
MaxExtraRows == 1
PatLen == 2

RegionNames == <<"North", "South">>
SegmentNames == <<"Consumer", "Corporate">>
CategoryNames == <<"Office", "Tech">>
Dates == {115, 210}
Revenues == {0, 1, 2}

\* sort_values is called without kind, i.e. with kind="quicksort", which
\* gives no guarantee on the order of equal keys (numpy keeps it only for
\* short inputs).  The model lets a sort leave equal keys in input order or
\* reversed, for inputs of any length.
TieOrders == {"keep", "reverse"}

None == <<>>
Some(v) == <<v>>

Range(s) == {s[i] : i \in 1..Len(s)}

----------------------------------------------------------------------------
(* Floats produced by division *)

NaN == [kind |-> "nan"]
Inf == [kind |-> "inf"]

RECURSIVE GCD(_, _)
GCD(a, b) == IF b = 0 THEN a ELSE GCD(b, a % b)

Fraction(n, d) == [kind |-> "finite", num |-> n \div GCD(n, d), den |-> d \div GCD(n, d)]

\* n / d on non-negative numbers, as numpy divides floats
Div(n, d) ==
  IF d = 0 THEN (IF n = 0 THEN NaN ELSE Inf) ELSE Fraction(n, d)

NumLess(a, b) ==
  /\ a.kind # "nan" /\ b.kind # "nan"
  /\ a.kind = "finite"
  /\ \/ b.kind = "inf"
     \/ b.kind = "finite" /\ a.num * b.den < b.num * a.den

RECURSIVE SumInt(_)
SumInt(s) == IF s = <<>> THEN 0 ELSE Head(s) + SumInt(Tail(s))

RECURSIVE SumFrac(_)
SumFrac(s) ==
  IF s = <<>> THEN Fraction(0, 1)
  ELSE LET r == SumFrac(Tail(s))
           h == Head(s)
       IN Fraction(h.num * r.den + r.num * h.den, h.den * r.den)

\* Series.mean() with skipna: nan entries are skipped, inf propagates
Mean(s) ==
  LET valid == SelectSeq(s, LAMBDA x : x.kind # "nan")
      finite == SelectSeq(s, LAMBDA x : x.kind = "finite")
  IN IF valid = <<>> THEN NaN
     ELSE IF Len(finite) < Len(valid) THEN Inf
     ELSE LET t == SumFrac(finite) IN Fraction(t.num, t.den * Len(finite))

----------------------------------------------------------------------------
(* DataFrame operations *)

\* frame[name]: the values of one column
Column(frame, name) == [i \in 1..Len(frame) |-> frame[i][name]]

\* DataFrame.sort_values with the default kind="quicksort": precedes[i, j]
\* says that the key of row i sorts before the key of row j; rows come out
\* in key order, equal keys in the order `kind` leaves them
SortValues(frame, precedes, kind) ==
  LET n == Len(frame)
      First(i, j) ==
        \/ precedes[i, j]
        \/ /\ ~precedes[j, i]
           /\ IF kind = "keep" THEN i < j ELSE j < i
      place == [i \in 1..n |-> Cardinality({j \in 1..n : j # i /\ First(j, i)})]
  IN [k \in 1..n |-> frame[CHOOSE i \in 1..n : place[i] = k - 1]]

\* df.loc[mask]: a new frame holding the rows the mask keeps, in order
Loc(frame, mask) ==
  LET RECURSIVE Take(_)
      Take(i) == IF i > Len(frame) THEN <<>>
                 ELSE (IF mask[i] THEN <<frame[i]>> ELSE <<>>) \o Take(i + 1)
  IN Take(1)

\* isin that takes an empty selection for "no filter"
IsinOrAll(value, values) == values = {} \/ value \in values

Isin(value, values) == value \in values

\* emptiness tests that are off by one row, or never true
EmptyOrSingle(frame) == Len(frame) <= 1

EmptyNever(frame) == FALSE

Empty(frame) == Len(frame) = 0

HeadRows(frame, n) == SubSeq(frame, 1, IF Len(frame) < n THEN Len(frame) ELSE n)

\* the distinct keys of a column in sorted order (groupby sorts its keys)
GroupKeys(frame, names, by) ==
  SelectSeq(names, LAMBDA k : \E i \in 1..Len(frame) : frame[i][by] = k)

\* the rows of one group
Group(frame, by, k) == SelectSeq(frame, LAMBDA r : r[by] = k)

\* key orders for sort_values on an integer column
Ascending(frame, by) ==
  [i \in 1..Len(frame), j \in 1..Len(frame) |-> frame[i][by] < frame[j][by]]

Descending(frame, by) ==
  [i \in 1..Len(frame), j \in 1..Len(frame) |-> frame[i][by] > frame[j][by]]


\* the values of a set of integers in ascending order
RECURSIVE SortedSeq(_)
SortedSeq(S) ==
  IF S = {} THEN <<>>
  ELSE LET m == CHOOSE x \in S : \A y \in S : x <= y
       IN <<m>> \o SortedSeq(S \ {m})

\* dt.to_period("M").dt.to_timestamp(): the first day of the date's month
Month(date) == (date \div 100) * 100 + 1

----------------------------------------------------------------------------
(* load_data *)

\* pd.read_csv: the rows of the file, labelled 0, 1, ... in file order
read_csv(rows) == [i \in 1..Len(rows) |-> [index |-> i - 1] @@ rows[i]]

load_data(rows, kind) ==
  LET sorted == SortValues(read_csv(rows),
                           Ascending(read_csv(rows), "order_date"), kind)
  IN [i \in 1..Len(sorted) |->
        sorted[i] @@ [month |-> Month(sorted[i].order_date),
                      gross_margin |-> Div(sorted[i].profit, sorted[i].revenue)]]

----------------------------------------------------------------------------
(* main: sidebar widgets *)

min_date(d) == CHOOSE x \in Range(Column(d, "order_date")) :
                 \A y \in Range(Column(d, "order_date")) : x <= y
max_date(d) == CHOOSE x \in Range(Column(d, "order_date")) :
                 \A y \in Range(Column(d, "order_date")) : x >= y

regions(d) == Range(Column(d, "region"))
segments(d) == Range(Column(d, "customer_segment"))
categories(d) == Range(Column(d, "product_category"))

\* the widget values of a first run: the full range, every option selected
DefaultCriteria(d) ==
  [start_date |-> min_date(d), end_date |-> max_date(d),
   selected_regions |-> regions(d), selected_segments |-> segments(d),
   selected_categories |-> categories(d)]

\* a handle of the range slider moved: a range inside [min_date, max_date]
SliderMoves(d, c) ==
  LET inside == {x \in Dates : min_date(d) <= x /\ x <= max_date(d)}
  IN {[c EXCEPT !.start_date = s] : s \in {x \in inside : x <= c.end_date}}
     \cup {[c EXCEPT !.end_date = e] : e \in {x \in inside : c.start_date <= x}}

\* one option of a multiselect added or removed, or the selection cleared
Picks(options, selected) ==
  {selected \cup {o} : o \in options} \cup {selected \ {o} : o \in options} \cup {{}}

\* the widget values of the next execution: each change of one widget
\* re-executes the script; a reload of the page restores the defaults
WidgetValues(d, c) ==
  SliderMoves(d, c)
  \cup {[c EXCEPT !.selected_regions = x] : x \in Picks(regions(d), c.selected_regions)}
  \cup {[c EXCEPT !.selected_segments = x] : x \in Picks(segments(d), c.selected_segments)}
  \cup {[c EXCEPT !.selected_categories = x] :
          x \in Picks(categories(d), c.selected_categories)}
  \cup {DefaultCriteria(d)}

----------------------------------------------------------------------------
(* main: filter, KPIs, grouped aggregates, ranking, insights *)

Limit == 15

\* the mask with an exclusive end of the date range
MaskStrictEnd(d, c) ==
  [i \in 1..Len(d) |->
     /\ d[i].order_date >= c.start_date
     /\ d[i].order_date < c.end_date
     /\ d[i].region \in c.selected_regions
     /\ d[i].customer_segment \in c.selected_segments
     /\ d[i].product_category \in c.selected_categories]

Mask(d, c) ==
  [i \in 1..Len(d) |->
     /\ d[i].order_date >= c.start_date
     /\ d[i].order_date <= c.end_date
     /\ Isin(d[i].region, c.selected_regions)
     /\ Isin(d[i].customer_segment, c.selected_segments)
     /\ Isin(d[i].product_category, c.selected_categories)]

KPIs(view) ==
  [total_revenue |-> SumInt(Column(view, "revenue")),
   total_profit |-> SumInt(Column(view, "profit")),
   total_units |-> SumInt(Column(view, "units")),
   gross_margin |-> Mean(Column(view, "gross_margin"))]

RevenueByMonth(view) ==
  LET keys == GroupKeys(view, SortedSeq({Month(x) : x \in Dates}), "month")
  IN [i \in 1..Len(keys) |->
        [month |-> keys[i],
         revenue |-> SumInt(Column(Group(view, "month", keys[i]), "revenue"))]]

MarginByCategory(view) ==
  LET keys == GroupKeys(view, CategoryNames, "product_category")
  IN [i \in 1..Len(keys) |->
        [product_category |-> keys[i],
         gross_margin |-> Mean(Column(Group(view, "product_category", keys[i]),
                                      "gross_margin"))]]

\* groupby(...).first() in place of sum()
RevenueByRegionFirst(view) ==
  LET keys == GroupKeys(view, RegionNames, "region")
  IN [i \in 1..Len(keys) |->
        [region |-> keys[i],
         revenue |-> Group(view, "region", keys[i])[1].revenue]]

RevenueByRegion(view) ==
  LET keys == GroupKeys(view, RegionNames, "region")
  IN [i \in 1..Len(keys) |->
        [region |-> keys[i],
         revenue |-> SumInt(Column(Group(view, "region", keys[i]), "revenue"))]]

\* filtered.assign(...): a new frame, each row with the two derived columns
Assign(view, total_revenue) ==
  [i \in 1..Len(view) |->
     view[i] @@ [revenue_per_unit |-> Div(view[i].revenue, view[i].units),
                 contribution |-> Div(view[i].revenue, total_revenue)]]

\* the ranking without ascending=False
RankedAscending(view, total_revenue, kind) ==
  HeadRows(SortValues(Assign(view, total_revenue),
                      Ascending(view, "revenue"), kind), Limit)

Ranked(view, total_revenue, kind) ==
  HeadRows(SortValues(Assign(view, total_revenue),
                      Descending(view, "revenue"), kind), Limit)

\* the derived columns written into the rows of d that the mask keeps
DfAssignedInPlace(d, mask, total_revenue) ==
  [i \in 1..Len(d) |->
     IF mask[i]
     THEN d[i] @@ [revenue_per_unit |-> Div(d[i].revenue, d[i].units),
                   contribution |-> Div(d[i].revenue, total_revenue)]
     ELSE d[i]]

\* df.loc[mask] copies and assign() returns a new frame: the frame bound at
\* line 36 is what load_data returned
DfAfterRun(d, mask, total_revenue) == d

\* the regions sorted without ascending=False
KeyRegionsAscending(by_region, kind) ==
  SortValues(by_region, Ascending(by_region, "revenue"), kind)

KeyRegions(by_region, kind) ==
  SortValues(by_region, Descending(by_region, "revenue"), kind)

\* sort_values(..., ascending=False): larger margins first, nan last
KeyMargins(by_category, kind) ==
  SortValues(by_category,
             [i \in 1..Len(by_category), j \in 1..Len(by_category) |->
                LET a == by_category[i].gross_margin
                    b == by_category[j].gross_margin
                IN NumLess(b, a) \/ (a.kind # "nan" /\ b.kind = "nan")],
             kind)

\* one execution of main() on frame d with widget values c; kind is the
\* order this execution's sort_values calls leave equal keys in
main(d, c, kind) ==
  LET mask == Mask(d, c)
      view == Loc(d, mask)
  IN IF Empty(view)
     THEN [df |-> d, filtered |-> view, warning |-> TRUE, kpis |-> None,
           revenue_by_month |-> None, margin_by_category |-> None,
           revenue_by_region |-> None, ranked |-> None, insights |-> None,
           raised |-> ""]
     ELSE LET k == KPIs(view)
              by_month == RevenueByMonth(view)
              by_category == MarginByCategory(view)
              by_region == RevenueByRegion(view)
              key_regions == KeyRegions(by_region, kind)
              key_margins == KeyMargins(by_category, kind)
              \* iloc[0] / iloc[-1] raise IndexError on an empty frame
              indexable == key_regions # <<>> /\ key_margins # <<>>
          IN [df |-> DfAfterRun(d, mask, k.total_revenue),
              filtered |-> view, warning |-> FALSE, kpis |-> Some(k),
              revenue_by_month |-> Some(by_month),
              margin_by_category |-> Some(by_category),
              revenue_by_region |-> Some(by_region),
              ranked |-> Some(Ranked(view, k.total_revenue, kind)),
              insights |-> IF indexable
                           THEN Some([best_region |-> key_regions[1],
                                      worst_region |-> key_regions[Len(key_regions)],
                                      top_margin |-> key_margins[1]])
                           ELSE None,
              raised |-> IF indexable THEN "" ELSE "IndexError"]

----------------------------------------------------------------------------
(* Actions *)

Show(d, c, out) ==
  /\ df' = out.df
  /\ criteria' = c
  /\ filtered' = out.filtered
  /\ warning' = out.warning
  /\ kpis' = out.kpis
  /\ revenue_by_month' = out.revenue_by_month
  /\ margin_by_category' = out.margin_by_category
  /\ revenue_by_region' = out.revenue_by_region
  /\ ranked' = out.ranked
  /\ insights' = out.insights
  /\ raised' = out.raised

\* the first execution of the script: load_data misses the cache, reads and
\* sorts the file; the widgets hold their defaults
FirstRun ==
  /\ pc = "start"
  /\ \E load_kind \in TieOrders, kind \in TieOrders :
       \E d \in {load_data(source, load_kind)} :
         \E out \in {main(d, DefaultCriteria(d), kind)} :
           /\ cache' = Some(d)
           /\ Show(d, DefaultCriteria(d), out)
  /\ pc' = "first"
  /\ UNCHANGED source

\* a widget change re-executes the script: load_data hits the cache
Rerun ==
  /\ pc # "start"
  /\ \E c \in WidgetValues(cache[1], criteria), kind \in TieOrders :
       \E out \in {main(cache[1], c, kind)} :
         Show(cache[1], c, out)
  /\ pc' = "rerun"
  /\ UNCHANGED <<source, cache>>

Next == FirstRun \/ Rerun

----------------------------------------------------------------------------
(* Initial states: the CSV files the model loads *)

Row(d, r, s, c, rev, p, u) ==
  [order_date |-> d, region |-> r, customer_segment |-> s,
   product_category |-> c, revenue |-> rev, profit |-> p, units |-> u]

SeqsUpTo(S, n) == UNION {[1..m -> S] : m \in 1..n}

\* files whose rows differ in date, region and segment; the category
\* alternates and the revenue grows along the file
FilterSources ==
  {[i \in 1..Len(f) |-> Row(f[i][1], f[i][2], f[i][3],
                            CategoryNames[(i % 2) + 1], i, 1, 1)] :
     f \in SeqsUpTo(Dates \X Range(RegionNames) \X Range(SegmentNames), MaxRows)}

\* files whose rows differ in region and revenue
AggSources ==
  SeqsUpTo({Row(115, r, "Consumer", "Office", rev, 1, 1) :
              r \in Range(RegionNames), rev \in Revenues}, MaxAggRows)

\* files longer than the ranked table: the revenue repeats a pattern of
\* PatLen values; date, category, profit and units go by the row's position
RankSources ==
  {[i \in 1..n |-> Row(IF i % 2 = 0 THEN 115 ELSE 210, "North", "Consumer",
                       CategoryNames[(i % 2) + 1],
                       rp[(i % PatLen) + 1], i % 2, i % 3)] :
     n \in (Limit - 1)..(Limit + MaxExtraRows),
     rp \in [1..PatLen -> Revenues]}

InitWith(sources) ==
  /\ source \in sources
  /\ cache = None
  /\ pc = "start"
  /\ df = <<>>
  /\ criteria = [start_date |-> 0, end_date |-> 0, selected_regions |-> {},
                 selected_segments |-> {}, selected_categories |-> {}]
  /\ filtered = <<>>
  /\ warning = FALSE
  /\ kpis = None
  /\ revenue_by_month = None
  /\ margin_by_category = None
  /\ revenue_by_region = None
  /\ ranked = None
  /\ insights = None
  /\ raised = ""

Init == InitWith(FilterSources)
InitAgg == InitWith(AggSources)
InitRank == InitWith(RankSources)

Spec == Init /\ [][Next]_vars
SpecAgg == InitAgg /\ [][Next]_vars
SpecRank == InitRank /\ [][Next]_vars

----------------------------------------------------------------------------
(* Properties *)

Dataset == cache[1]

Position(frame, label) == CHOOSE i \in 1..Len(frame) : frame[i].index = label

Labels(frame) == {frame[i].index : i \in 1..Len(frame)}

Min(a, b) == IF a < b THEN a ELSE b

LoadedColumns ==
  {"index", "order_date", "region", "customer_segment", "product_category",
   "revenue", "profit", "units", "month", "gross_margin"}

\* the row predicate of the filter criteria
Satisfies(row, c) ==
  /\ c.start_date <= row.order_date /\ row.order_date <= c.end_date
  /\ row.region \in c.selected_regions
  /\ row.customer_segment \in c.selected_segments
  /\ row.product_category \in c.selected_categories

\* C1: a row of the dataset is in the filtered view exactly when it lies in
\* the date range and its region, segment and category are among the
\* selected ones; the view holds no other rows.
FilterKeepsExactlyMatchingRows ==
  pc # "start" =>
    /\ \A i \in 1..Len(Dataset) :
         (Dataset[i] \in Range(filtered)) <=> Satisfies(Dataset[i], criteria)
    /\ Range(filtered) \subseteq Range(Dataset)

\* a run whose view dropped a row for its date alone and kept another
FilterWitness ==
  /\ pc = "rerun" /\ filtered # <<>>
  /\ \E i \in 1..Len(Dataset) :
       /\ Dataset[i] \notin Range(filtered)
       /\ Dataset[i].region \in criteria.selected_regions
       /\ Dataset[i].customer_segment \in criteria.selected_segments
       /\ Dataset[i].product_category \in criteria.selected_categories

\* C2: an empty selection of regions, of segments or of categories gives an
\* empty view, whatever the date range and the other two selections.
EmptySelectionMatchesNothing ==
  (/\ pc # "start"
   /\ \/ criteria.selected_regions = {}
      \/ criteria.selected_segments = {}
      \/ criteria.selected_categories = {})
  => filtered = <<>>

\* a run with no region selected, everything else at its widest
EmptySelectionWitness ==
  /\ pc = "rerun"
  /\ criteria.selected_regions = {}
  /\ criteria.selected_segments = segments(Dataset)
  /\ criteria.selected_categories = categories(Dataset)
  /\ criteria.start_date = min_date(Dataset)
  /\ criteria.end_date = max_date(Dataset)
  /\ Len(Dataset) >= 2
  /\ filtered = <<>>

\* C3: a run either shows the no-data warning and computes nothing (empty
\* view), or shows no warning and computes the KPIs (non-empty view); no run
\* ends with an exception.
EmptyViewShortCircuits ==
  pc # "start" =>
    /\ raised = ""
    /\ warning <=> filtered = <<>>
    /\ warning =>
         /\ kpis = None /\ revenue_by_month = None /\ margin_by_category = None
         /\ revenue_by_region = None /\ ranked = None /\ insights = None
    /\ ~warning => kpis # None

\* a run that showed the warning, after a run that did not
ShortCircuitWitness ==
  /\ pc = "rerun" /\ warning /\ filtered = <<>>
  /\ criteria.selected_regions # {}
  /\ criteria.selected_segments # {}
  /\ criteria.selected_categories # {}

\* C4: the per-region revenue totals of a non-empty view add up to the
\* total_revenue KPI of that view.
RegionTotalsSumToTotalRevenue ==
  kpis # None =>
    SumInt(Column(revenue_by_region[1], "revenue")) = kpis[1].total_revenue

\* a view of three rows or more spread over two regions
RegionTotalsWitness ==
  /\ kpis # None
  /\ Len(filtered) >= 3
  /\ Len(revenue_by_region[1]) = 2
  /\ \A i \in 1..Len(filtered) : filtered[i].revenue > 0

\* C5: the ranked table has min(15, size of the view) rows in descending
\* order of revenue; each is a distinct row of the view, unchanged but for
\* revenue_per_unit = revenue / units and contribution = revenue /
\* total_revenue; no row of the view with a revenue above that of a ranked
\* row is missing from it.
RankedIsTopOfView ==
  ranked # None =>
    LET table == ranked[1]
        total == kpis[1].total_revenue
    IN /\ Len(table) = Min(Limit, Len(filtered))
       /\ \A i \in 1..(Len(table) - 1) : table[i].revenue >= table[i + 1].revenue
       /\ \A i \in 1..Len(table) :
            \E v \in Range(filtered) :
              table[i] = v @@ [revenue_per_unit |-> Div(v.revenue, v.units),
                               contribution |-> Div(v.revenue, total)]
       /\ Cardinality(Labels(table)) = Len(table)
       /\ \A v \in Range(filtered) :
            (\E i \in 1..Len(table) : v.revenue > table[i].revenue)
              => v.index \in Labels(table)

\* a view longer than the table, whose dropped row has less revenue than a
\* ranked one, with a non-finite ratio among the ranked rows
RankedWitness ==
  /\ ranked # None
  /\ Len(filtered) > Limit
  /\ Len(ranked[1]) = Limit
  /\ \E v \in Range(filtered) :
       /\ v.index \notin Labels(ranked[1])
       /\ v.revenue < ranked[1][1].revenue
  /\ \E i \in 1..Limit : ranked[1][i].revenue_per_unit.kind # "finite"

\* C6: ranked rows of equal revenue are in dataset order.
RankedTiesInDatasetOrder ==
  ranked # None =>
    \A i, j \in 1..Len(ranked[1]) :
      (i < j /\ ranked[1][i].revenue = ranked[1][j].revenue)
        => Position(Dataset, ranked[1][i].index) < Position(Dataset, ranked[1][j].index)

\* C7: the loaded dataset is the file's rows in ascending order of
\* order_date, rows of equal date in file order, none added, dropped or
\* duplicated.
LoadSortsStably ==
  pc # "start" =>
    /\ Len(Dataset) = Len(source)
    /\ Labels(Dataset) = 0..(Len(source) - 1)
    /\ \A i \in 1..Len(Dataset) :
         \A f \in DOMAIN source[1] :
           Dataset[i][f] = source[Dataset[i].index + 1][f]
    /\ \A i, j \in 1..Len(Dataset) :
         i < j =>
           \/ Dataset[i].order_date < Dataset[j].order_date
           \/ /\ Dataset[i].order_date = Dataset[j].order_date
              /\ Dataset[i].index < Dataset[j].index

\* C8: once loaded, the cached dataset never changes, and every run leaves
\* the frame it worked on equal to it, with the loaded columns only.
DatasetNeverMutated ==
  /\ [](pc # "start" =>
          /\ df = Dataset
          /\ \A i \in 1..Len(df) : DOMAIN df[i] = LoadedColumns)
  /\ [][pc # "start" => cache' = cache]_vars

\* a re-run that ranked part of the dataset
DatasetWitness ==
  /\ pc = "rerun"
  /\ ranked # None
  /\ Len(ranked[1]) >= 1
  /\ Len(filtered) < Len(Dataset)
  /\ df = Dataset

\* C9: the best region is a group of the revenue-by-region totals with the
\* largest total, the worst one with the smallest; with one group they are
\* the same entry.
BestAndWorstAreExtremes ==
  insights # None =>
    LET groups == revenue_by_region[1]
        best == insights[1].best_region
        worst == insights[1].worst_region
    IN /\ best \in Range(groups)
       /\ worst \in Range(groups)
       /\ \A g \in Range(groups) :
            worst.revenue <= g.revenue /\ g.revenue <= best.revenue
       /\ Len(groups) = 1 => best = worst

\* two regions with different totals
BestAndWorstWitness ==
  /\ insights # None
  /\ Len(revenue_by_region[1]) = 2
  /\ insights[1].best_region.revenue > insights[1].worst_region.revenue
  /\ Len(filtered) >= 3

\* C10: the insights are computed only from a non-empty view whose region
\* and category groupings have a group each, and no run raises IndexError.
InsightsOnlyOnNonEmptyGroups ==
  /\ raised = ""
  /\ insights # None =>
       /\ filtered # <<>>
       /\ Len(revenue_by_region[1]) >= 1
       /\ Len(margin_by_category[1]) >= 1

\* insights computed in a re-run on a view of a single row
InsightsWitness ==
  /\ pc = "rerun"
  /\ insights # None
  /\ Len(filtered) = 1
  /\ Len(Dataset) >= 2

====
